---- MODULE Spec2Model ----
(***************************************************************************)
(* Firewall Comparison Tool (src/app.py): the field normalizer             *)
(* (extract_max_throughput, parse_and_convert), the automatic and manual   *)
(* matching logic of the Streamlit script and build_matching_table.        *)
(*                                                                         *)
(* Two specifications share the module:                                    *)
(*   SpecNorm  loads one CSV column through parse_and_convert, possibly    *)
(*             more than once;                                             *)
(*   Spec      starts from a loaded session (normalized tables) and runs   *)
(*             the script once for one submitted form.                     *)
(*                                                                         *)
(* A number is kept exactly as a decimal, mantissa m and e fraction        *)
(* digits (value m / 10^e) with no trailing fraction zero, so that equal   *)
(* floats are equal records.  Every literal the model reads has far fewer  *)
(* than 15 significant digits, where float() is injective and monotone,    *)
(* so comparing the decimals is comparing the floats.                      *)
(***************************************************************************)
EXTENDS Integers, Sequences, FiniteSets, TLC

\* ------------------------------------------------------------------ bounds
MaxLen == 4          \* longest raw string of a CSV cell
MaxRuns == 2         \* parse_and_convert runs over one table
MaxRows == 2         \* rows of the Sophos table
MaxVal == 2          \* largest throughput in a numeric cell

Alphabet == {"0", "5", "9", ".", "/"}

\* ------------------------------------------------------------------ cells
NaN == [k |-> "nan", m |-> 0, e |-> 0, s |-> <<>>]
None == [k |-> "none", m |-> 0, e |-> 0, s |-> <<>>]
Str(s) == [k |-> "str", m |-> 0, e |-> 0, s |-> s]

RECURSIVE Canon(_, _)
Canon(m, e) == IF e > 0 /\ m % 10 = 0 THEN Canon(m \div 10, e - 1)
               ELSE [k |-> "num", m |-> m, e |-> e, s |-> <<>>]
Num(n) == Canon(n, 0)

RECURSIVE Pow10(_)
Pow10(n) == IF n = 0 THEN 1 ELSE 10 * Pow10(n - 1)

\* a >= b and a > b on numbers (IEEE: any comparison with NaN is false)
Geq(a, b) == /\ a.k = "num" /\ b.k = "num"
             /\ a.m * Pow10(b.e) >= b.m * Pow10(a.e)
Gt(a, b) == /\ a.k = "num" /\ b.k = "num"
            /\ a.m * Pow10(b.e) > b.m * Pow10(a.e)

\* pd.notnull / pd.isnull of a scalar
notnull(v) == v.k \notin {"nan", "none"}

\* ------------------------------------------------------------------ regex
DigitVal == [c \in {"0", "1", "2", "3", "4", "5", "6", "7", "8", "9"} |->
               CASE c = "0" -> 0 [] c = "1" -> 1 [] c = "2" -> 2 [] c = "3" -> 3
                 [] c = "4" -> 4 [] c = "5" -> 5 [] c = "6" -> 6 [] c = "7" -> 7
                 [] c = "8" -> 8 [] c = "9" -> 9]
IsDigit(c) == c \in DOMAIN DigitVal

\* first position >= i of s that holds no digit (Len(s) + 1 when none): \d* from i
RECURSIVE DigitsEnd(_, _)
DigitsEnd(s, i) == IF i <= Len(s) /\ IsDigit(s[i]) THEN DigitsEnd(s, i + 1) ELSE i

\* end (exclusive) of the match of \d+\.?\d* that starts at the digit s[i]
MatchEnd(s, i) ==
    LET a == DigitsEnd(s, i)
    IN IF a <= Len(s) /\ s[a] = "." THEN DigitsEnd(s, a + 1) ELSE a

\* re.findall(r"\d+\.?\d*", s), scanning from position i
RECURSIVE findall(_, _)
findall(s, i) ==
    IF i > Len(s) THEN <<>>
    ELSE IF IsDigit(s[i])
         THEN <<SubSeq(s, i, MatchEnd(s, i) - 1)>> \o findall(s, MatchEnd(s, i))
         ELSE findall(s, i + 1)

\* float(t) of a literal digits[.[digits]]
RECURSIVE Mantissa(_, _, _)
Mantissa(t, i, acc) ==
    IF i > Len(t) THEN acc
    ELSE IF t[i] = "." THEN Mantissa(t, i + 1, acc)
         ELSE Mantissa(t, i + 1, 10 * acc + DigitVal[t[i]])
float(t) ==
    LET dot == DigitsEnd(t, 1)
        frac == IF dot > Len(t) THEN 0 ELSE Len(t) - dot
    IN Canon(Mantissa(t, 1, 0), frac)

\* max(nums) of a non-empty list: the first greatest element
RECURSIVE max(_, _, _)
max(nums, i, best) ==
    IF i > Len(nums) THEN best
    ELSE max(nums, i + 1, IF Gt(nums[i], best) THEN nums[i] ELSE best)

\* mutants of extract_max_throughput: the first number instead of the greatest;
\* a missing "return value" for what is no string
extract_first_throughput(value) ==
    IF value.k = "str"
    THEN LET toks == findall(value.s, 1)
             nums == [j \in 1..Len(toks) |-> float(toks[j])]
         IN IF nums # <<>> THEN nums[1] ELSE None
    ELSE value
extract_strings_only(value) ==
    IF value.k = "str"
    THEN LET toks == findall(value.s, 1)
             nums == [j \in 1..Len(toks) |-> float(toks[j])]
         IN IF nums # <<>> THEN max(nums, 2, nums[1]) ELSE None
    ELSE None

extract_max_throughput(value) ==
    IF value.k = "str"
    THEN LET toks == findall(value.s, 1)
             nums == [j \in 1..Len(toks) |-> float(toks[j])]
         IN IF nums # <<>> THEN max(nums, 2, nums[1]) ELSE None
    ELSE value

\* pd.to_numeric(v, errors='coerce') of one element: a number stays, None and
\* NaN become NaN, a string is parsed when it is one literal and is NaN otherwise
to_numeric(v) ==
    CASE v.k = "num" -> v
      [] v.k = "str" -> IF findall(v.s, 1) = <<v.s>> THEN float(v.s) ELSE NaN
      [] OTHER -> NaN

\* ------------------------------------------------------------------ tables
FW == "Firewall Throughput (Gbps)"
IPS == "IPS Throughput (Gbps)"
TP == "Threat Protection Throughput (Gbps)"
NGFW == "NGFW Throughput (Gbps)"
VPN == "IPsec VPN Throughput (Gbps)"
MODEL == "Model"

FORTINET_COLS == <<FW, IPS, TP, NGFW, VPN>>
PALOALTO_COLS == <<FW, TP, VPN>>
Range(q) == {q[i] : i \in DOMAIN q}
\* list(set(...)): the order of a set's list is not fixed; any one order
ALL_COLUMNS ==
    LET S == Range(FORTINET_COLS \o PALOALTO_COLS)
    IN CHOOSE q \in [1..Cardinality(S) -> S] : Range(q) = S

\* A DataFrame: its column labels, its index labels in row order and its rows
\* (row i carries index label index[i]); pd.DataFrame() has none of them.
DataFrame(cols, rws) ==
    [columns |-> cols, index |-> [i \in 1..Len(rws) |-> i - 1], rows |-> rws]
EmptyDataFrame == DataFrame({}, <<>>)
\* df.empty: some axis has length 0
empty(df) == df.columns = {} \/ df.rows = <<>>

\* lines 20-21 for one column c of df
ConvertColumn(df, c) ==
    [df EXCEPT !.rows = [i \in DOMAIN df.rows |->
        [df.rows[i] EXCEPT ![c] = to_numeric(extract_max_throughput(df.rows[i][c]))]]]

RECURSIVE parse_and_convert(_, _)
parse_and_convert(df, col_list) ==
    IF col_list = <<>> THEN df
    ELSE LET c == Head(col_list)
         IN parse_and_convert(IF c \in df.columns THEN ConvertColumn(df, c) ELSE df,
                              Tail(col_list))

\* ------------------------------------------------------------------ script
vendors == <<"Fortinet", "Palo Alto", "SonicWall">>

\* lines 99-108: the table and the column list of the selected vendor
use_df_of(ss, vendor) ==
    CASE vendor = "Fortinet" -> ss.fortinet_data
      [] vendor = "Palo Alto" -> ss.paloalto_data
      [] OTHER -> EmptyDataFrame
use_cols_of(vendor) ==
    CASE vendor = "Fortinet" -> FORTINET_COLS
      [] vendor = "Palo Alto" -> PALOALTO_COLS
      [] OTHER -> <<>>

\* d["Model"].dropna().unique() when d has the column, [] otherwise (lines 117, 224)
model_list(d) ==
    IF MODEL \in d.columns
    THEN {d.rows[i][MODEL] : i \in {j \in DOMAIN d.rows : notnull(d.rows[j][MODEL])}}
    ELSE {}

\* mutant of first_row: the table's last row, whatever its name
last_row_of_table(d, name) == Len(d.rows)

\* d.loc[d["Model"] == name].iloc[0]: the position of the first row of that name
first_row(d, name) ==
    CHOOSE i \in DOMAIN d.rows :
        /\ d.rows[i][MODEL] = name
        /\ \A j \in 1..(i - 1) : d.rows[j][MODEL] # name

\* row.get(c, None)
get(row, c) == IF c \in DOMAIN row THEN row[c] ELSE None

\* d[mask]: the rows whose mask entry is true, labels and order kept
RECURSIVE Positions(_, _)
Positions(mask, i) ==
    IF i > Len(mask) THEN <<>>
    ELSE (IF mask[i] THEN <<i>> ELSE <<>>) \o Positions(mask, i + 1)
boolean_index(d, mask) ==
    LET keep == Positions(mask, 1)
    IN [columns |-> d.columns,
        index |-> [i \in DOMAIN keep |-> d.index[keep[i]]],
        rows |-> [i \in DOMAIN keep |-> d.rows[keep[i]]]]

\* lines 176-181: False, or the boolean Series False | (col >= f_val) | ...
ScalarFalse == [scalar |-> TRUE, series |-> <<>>]

\* mutant of mask_any_of: every shared column must reach the competitor's value
RECURSIVE mask_all_of(_, _, _, _)
mask_all_of(comp_row, sophos, cols, mask) ==
    IF cols = <<>> THEN mask
    ELSE LET c == Head(cols)
         IN IF c \notin DOMAIN comp_row \/ c \notin sophos.columns
            THEN mask_all_of(comp_row, sophos, Tail(cols), mask)
            ELSE mask_all_of(comp_row, sophos, Tail(cols),
                   [scalar |-> FALSE,
                    series |-> [i \in DOMAIN sophos.rows |->
                        /\ (mask.scalar \/ mask.series[i])
                        /\ Geq(sophos.rows[i][c], comp_row[c])]])

RECURSIVE mask_any_of(_, _, _, _)
mask_any_of(comp_row, sophos, cols, mask) ==
    IF cols = <<>> THEN mask
    ELSE LET c == Head(cols)
         IN IF c \notin DOMAIN comp_row \/ c \notin sophos.columns
            THEN mask_any_of(comp_row, sophos, Tail(cols), mask)
            ELSE mask_any_of(comp_row, sophos, Tail(cols),
                   [scalar |-> FALSE,
                    series |-> [i \in DOMAIN sophos.rows |->
                        \/ (~mask.scalar /\ mask.series[i])
                        \/ Geq(sophos.rows[i][c], comp_row[c])]])

\* mutant of idxmin: the label of the last minimum
RECURSIVE idxmin_last(_, _, _, _)
idxmin_last(d, c, i, best) ==
    IF i > Len(d.rows) THEN d.index[best]
    ELSE idxmin_last(d, c, i + 1, IF Gt(d.rows[i][c], d.rows[best][c]) THEN best ELSE i)

\* Series.idxmin() of column c of d (no NaN in it): the label of the first minimum
RECURSIVE idxmin(_, _, _, _)
idxmin(d, c, i, best) ==
    IF i > Len(d.rows) THEN d.index[best]
    ELSE idxmin(d, c, i + 1, IF Gt(d.rows[best][c], d.rows[i][c]) THEN i ELSE best)

\* mutant of notnull_rows: no row is dropped
all_rows(d, c) == d

\* line 193: the rows of d whose column c is not null
notnull_rows(d, c) ==
    boolean_index(d, [i \in DOMAIN d.rows |-> notnull(d.rows[i][c])])

\* d.loc[label]
loc(d, label) == d.rows[CHOOSE i \in DOMAIN d.rows : d.index[i] = label]

\* ------------------------------------------------------------------ report
DigitChar == <<"0", "1", "2", "3", "4", "5", "6", "7", "8", "9">>
RECURSIVE Digits(_)
Digits(n) == IF n < 10 THEN <<DigitChar[n + 1]>>
             ELSE Append(Digits(n \div 10), DigitChar[(n % 10) + 1])

\* f"{(s_val / v_val) * 100:.1f}%": the ratio in tenths of a percent, rounded to
\* the nearest (a tie goes to the even tenth), then its digits
RatioTenths(v_val, s_val) ==
    LET n == s_val.m * Pow10(v_val.e) * 1000
        d == v_val.m * Pow10(s_val.e)
        q == n \div d
        r == n % d
    IN IF 2 * r > d \/ (2 * r = d /\ q % 2 = 1) THEN q + 1 ELSE q
\* mutant of ratio_str_of: the ratio capped at 100%
ratio_str_capped(v_val, s_val) ==
    LET q == RatioTenths(v_val, s_val)
        capped == IF q > 1000 THEN 1000 ELSE q
    IN Digits(capped \div 10) \o <<".">> \o Digits(capped % 10) \o <<"%">>

ratio_str_of(v_val, s_val) ==
    LET q == RatioTenths(v_val, s_val)
    IN Digits(q \div 10) \o <<".">> \o Digits(q % 10) \o <<"%">>

NA == <<"N", "/", "A">>

\* mutant of ratio_cell: the Sophos value is not tested
ratio_cell_any_sophos(v_val, s_val) ==
    IF notnull(v_val) /\ v_val # Num(0)
    THEN ratio_str_of(v_val, s_val)
    ELSE NA

\* lines 154-158: the ratio, or "N/A"
ratio_cell(v_val, s_val) ==
    IF notnull(v_val) /\ v_val # Num(0) /\ notnull(s_val)
    THEN ratio_str_of(v_val, s_val)
    ELSE NA

\* lines 151-159: dev_dict, as the list of its keys in insertion order and its values
RECURSIVE dev_dict_of(_, _, _, _)
dev_dict_of(vendor_row, sophos_row, relevant_cols, acc) ==
    IF relevant_cols = <<>> THEN acc
    ELSE LET c == Head(relevant_cols)
             v_val == get(vendor_row, c)
             s_val == get(sophos_row, c)
             ratio_str == ratio_cell(v_val, s_val)
             entry == [v_val |-> v_val, s_val |-> s_val, ratio_str |-> ratio_str]
         IN dev_dict_of(vendor_row, sophos_row, Tail(relevant_cols),
                [keys |-> IF c \in Range(acc.keys) THEN acc.keys ELSE Append(acc.keys, c),
                 val |-> [k \in Range(acc.keys) \cup {c} |->
                            IF k = c THEN entry ELSE acc.val[k]]])

ValueLabel(name) == name.s \o <<" ", "V", "a", "l", "u", "e">>
build_matching_table(vendor_model_name, vendor_row, sophos_row, sophos_model_name, relevant_cols) ==
    LET dev_dict == dev_dict_of(vendor_row, sophos_row, relevant_cols,
                                [keys |-> <<>>, val |-> <<>>])
    IN [columns |-> dev_dict.keys,
        index |-> <<ValueLabel(vendor_model_name), ValueLabel(sophos_model_name),
                    <<"M", "a", "t", "c", "h", "i", "n", "g", " ", "(", "%", ")">> >>,
        data |-> dev_dict.val]
NoTable == [columns |-> <<>>, index |-> <<>>, data |-> <<>>]

\* ------------------------------------------------------------------ state
VARIABLES
    raw_df,               \* SpecNorm: what read_csv returned (or the empty frame)
    df,                   \* SpecNorm: the table parse_and_convert works on, in place
    prev_df,              \* SpecNorm: df as the latest parse_and_convert run found it
    key,                  \* SpecNorm: the session key the table is loaded for
    runs,                 \* SpecNorm: runs of parse_and_convert so far
    session_state,        \* st.session_state: the three loaded tables
    pc,                   \* "form": loaded, nothing submitted; "done": script ended
    selected_vendor,      \* line 96
    selected_model,       \* line 118
    manual_select,        \* line 121
    chosen_sophos_model,  \* line 224
    comp_row,             \* line 141
    filtered_sophos,      \* line 183
    sub,                  \* line 193
    idx_min,              \* line 198 (-1 before it is set)
    chosen_model,         \* lines 199, 226
    dev_table,            \* lines 205, 232
    outcome,              \* the last message or heading the run wrote
    fault                 \* the exception that ended the run, "none" without one

normVars == <<raw_df, df, prev_df, key, runs>>
appVars == <<session_state, pc, selected_vendor, selected_model, manual_select,
             chosen_sophos_model, comp_row, filtered_sophos, sub, idx_min,
             chosen_model, dev_table, outcome, fault>>
vars == <<normVars, appVars>>

NoRow == [c \in {} |-> NaN]

\* lines 50, 59, 68: each session key with the column list it is converted by
ColsOf(k) ==
    CASE k = "fortinet_data" -> FORTINET_COLS
      [] k = "paloalto_data" -> PALOALTO_COLS
      [] OTHER -> ALL_COLUMNS

\* ------------------------------------------------------------------ SpecNorm
RECURSIVE StringsOfLen(_)
StringsOfLen(n) ==
    IF n = 0 THEN {<<>>}
    ELSE {Append(s, c) : s \in StringsOfLen(n - 1), c \in Alphabet}
RawStrings == UNION {StringsOfLen(n) : n \in 1..MaxLen}

\* a numeric cell: a number or NaN (an empty field)
NumCells == {Num(n) : n \in 0..MaxVal} \cup {NaN}
\* a cell as read_csv leaves it: a numeric cell or a string
RawCells == NumCells \cup {Str(s) : s \in RawStrings}

\* read_csv results of SpecNorm: the empty frame (the read failed, lines 47-49)
\* or one row of a table, seen through one of its columns
RawTables ==
    {EmptyDataFrame} \cup
    {DataFrame({c}, <<[x \in {c} |-> v]>>) : c \in {FW, IPS}, v \in RawCells}

AppIdle ==
    /\ session_state = [fortinet_data |-> EmptyDataFrame,
                        paloalto_data |-> EmptyDataFrame,
                        sophos_data |-> EmptyDataFrame]
    /\ pc = "load"
    /\ selected_vendor = ""
    /\ selected_model = None
    /\ manual_select = FALSE
    /\ chosen_sophos_model = None
    /\ comp_row = NoRow
    /\ filtered_sophos = EmptyDataFrame
    /\ sub = EmptyDataFrame
    /\ idx_min = -1
    /\ chosen_model = NoRow
    /\ dev_table = NoTable
    /\ outcome = ""
    /\ fault = "none"

InitNorm ==
    /\ raw_df \in RawTables
    /\ df = raw_df
    /\ prev_df = raw_df
    /\ key \in {"fortinet_data", "paloalto_data", "sophos_data"}
    /\ runs = 0
    /\ AppIdle

\* lines 50, 59, 68: the load's run of parse_and_convert
Load ==
    /\ runs = 0
    /\ prev_df' = df
    /\ df' = parse_and_convert(df, ColsOf(key))
    /\ runs' = 1
    /\ UNCHANGED <<raw_df, key, appVars>>

\* parse_and_convert run again over the table it already converted
Rerun ==
    /\ runs >= 1
    /\ runs < MaxRuns
    /\ prev_df' = df
    /\ df' = parse_and_convert(df, ColsOf(key))
    /\ runs' = runs + 1
    /\ UNCHANGED <<raw_df, key, appVars>>

NextNorm == Load \/ Rerun
SpecNorm == InitNorm /\ [][NextNorm]_vars

\* ------------------------------------------------------------------ Spec
ModelId(prefix, i) == Str(<<prefix, DigitChar[i + 1]>>)

\* The selected vendor's CSV, seen through the one row the script reads of it
\* (line 141): a Model cell and any of the columns FW and IPS; or a table whose
\* Model cell is empty, or one without the Model column.
CompetitorTables ==
    {DataFrame({MODEL} \cup S, <<[c \in {MODEL} \cup S |->
                                    IF c = MODEL THEN ModelId("F", 1) ELSE cells[c]]>>) :
        S \in SUBSET {FW, IPS}, cells \in [{FW, IPS} -> NumCells]}
    \cup {DataFrame({MODEL, FW}, <<[c \in {MODEL, FW} |-> IF c = MODEL THEN NaN ELSE Num(1)]>>),
          DataFrame({FW}, <<[c \in {FW} |-> Num(1)]>>)}

\* A Sophos throughput: none, the lowest or the highest (against a competitor's
\* 0..MaxVal that gives below, equal and above)
SophosCells == {NaN, Num(0), Num(MaxVal)}

\* The Sophos CSV: nothing (the read failed), or up to MaxRows rows with any of
\* the columns Model, FW and IPS; the models are named S1, S2, ...
SophosTables ==
    {EmptyDataFrame} \cup
    UNION {
        {DataFrame(M \cup S, [i \in 1..n |-> [c \in M \cup S |->
                     IF c = MODEL THEN ModelId("S", i) ELSE cells[i][c]]]) :
            cells \in [1..n -> [S -> SophosCells]]} :
        M \in SUBSET {MODEL}, S \in SUBSET {FW, IPS}, n \in 0..MaxRows}

NormIdle ==
    /\ raw_df = EmptyDataFrame
    /\ df = EmptyDataFrame
    /\ prev_df = EmptyDataFrame
    /\ key = ""
    /\ runs = 0

\* lines 43-76: the session after load_csvs_into_session
Init ==
    /\ \E v \in {"Fortinet", "Palo Alto"}, comp \in CompetitorTables, soph \in SophosTables :
        session_state =
            [fortinet_data |->
                parse_and_convert(IF v = "Fortinet" THEN comp ELSE EmptyDataFrame,
                                  ColsOf("fortinet_data")),
             paloalto_data |->
                parse_and_convert(IF v = "Palo Alto" THEN comp ELSE EmptyDataFrame,
                                  ColsOf("paloalto_data")),
             sophos_data |-> parse_and_convert(soph, ColsOf("sophos_data"))]
    /\ pc = "form"
    /\ selected_vendor = ""
    /\ selected_model = None
    /\ manual_select = FALSE
    /\ chosen_sophos_model = None
    /\ comp_row = NoRow
    /\ filtered_sophos = EmptyDataFrame
    /\ sub = EmptyDataFrame
    /\ idx_min = -1
    /\ chosen_model = NoRow
    /\ dev_table = NoTable
    /\ outcome = ""
    /\ fault = "none"
    /\ NormIdle

sophos_data == session_state.sophos_data

\* lines 174-212 for one competitor row: what the run leaves behind
AutoRun(row, sophos, use_cols, model) ==
    LET mask_any == mask_any_of(row, sophos, use_cols, ScalarFalse)
        none == [filtered |-> EmptyDataFrame, sub |-> EmptyDataFrame,
                 idx_min |-> -1, chosen |-> NoRow, table |-> NoTable, outcome |-> "", fault |-> "none"]
    IN IF mask_any.scalar
       THEN [none EXCEPT !.fault = "KeyError"]                        \* line 183
       ELSE
       LET filtered == boolean_index(sophos, mask_any.series)
       IN IF empty(filtered)
          THEN [none EXCEPT !.filtered = filtered,                     \* line 186
                   !.outcome = "Please connect to StarLiNK Presales Consultant.."]
          ELSE IF FW \notin filtered.columns
          THEN [none EXCEPT !.filtered = filtered,                     \* line 190
                   !.outcome = "No 'Firewall Throughput (Gbps)' col in the filtered set."]
          ELSE
          LET s == notnull_rows(filtered, FW)
          IN IF empty(s)
             THEN [none EXCEPT !.filtered = filtered, !.sub = s,       \* line 195
                      !.outcome = "No valid firewall throughput in the filtered set."]
             ELSE
             LET idx == idxmin(s, FW, 2, 1)
                 chosen == loc(s, idx)
                 shown == [none EXCEPT !.filtered = filtered, !.sub = s,
                              !.idx_min = idx, !.chosen = chosen, !.outcome = "## Suggested Sophos Model"]
             IN IF MODEL \notin DOMAIN chosen
                THEN [shown EXCEPT !.fault = "KeyError"]               \* line 209
                ELSE [shown EXCEPT !.outcome = "## Matching Score",
                         !.table = build_matching_table(model, row, chosen,
                                                        chosen[MODEL], use_cols)]

\* lines 111-114, 133-134: SonicWall, or a vendor without data
StopNoVendor ==
    /\ pc = "form"
    /\ \E v \in Range(vendors) :
        /\ v = "SonicWall" \/ empty(use_df_of(session_state, v))
        /\ selected_vendor' = v
        /\ outcome' = IF v = "SonicWall"
                      THEN "Please connect to StarLiNK Presales Consultant."
                      ELSE "No data found."
    /\ pc' = "done"
    /\ UNCHANGED <<normVars, session_state, selected_model, manual_select,
                   chosen_sophos_model, comp_row, filtered_sophos, sub, idx_min,
                   chosen_model, dev_table, fault>>

\* lines 137-138: the vendor's table offers no model
StopNoModel ==
    /\ pc = "form"
    /\ \E v \in Range(vendors) :
        /\ v # "SonicWall" /\ ~empty(use_df_of(session_state, v))
        /\ model_list(use_df_of(session_state, v)) = {}
        /\ selected_vendor' = v
    /\ pc' = "done"
    /\ UNCHANGED <<normVars, session_state, selected_model, manual_select,
                   chosen_sophos_model, comp_row, filtered_sophos, sub, idx_min,
                   chosen_model, dev_table, outcome, fault>>

\* lines 141, 174-212: Compare with the box unticked
AutoLogic ==
    /\ pc = "form"
    /\ \E v \in Range(vendors) :
        LET use_df == use_df_of(session_state, v)
        IN /\ v # "SonicWall" /\ ~empty(use_df)
           /\ \E name \in model_list(use_df) :
                LET row == use_df.rows[first_row(use_df, name)]
                    run == AutoRun(row, sophos_data, use_cols_of(v), name)
                IN /\ selected_vendor' = v
                   /\ selected_model' = name
                   /\ comp_row' = row
                   /\ filtered_sophos' = run.filtered
                   /\ sub' = run.sub
                   /\ idx_min' = run.idx_min
                   /\ chosen_model' = run.chosen
                   /\ dev_table' = run.table
                   /\ outcome' = run.outcome
                   /\ fault' = run.fault
    /\ manual_select' = FALSE
    /\ pc' = "done"
    /\ UNCHANGED <<normVars, session_state, chosen_sophos_model>>

\* lines 141, 217-221: Compare with the box ticked, no Sophos model to offer
ManualNoData ==
    /\ pc = "form"
    /\ model_list(sophos_data) = {}
    /\ \E v \in Range(vendors) :
        LET use_df == use_df_of(session_state, v)
        IN /\ v # "SonicWall" /\ ~empty(use_df)
           /\ \E name \in model_list(use_df) :
                /\ selected_vendor' = v
                /\ selected_model' = name
                /\ comp_row' = use_df.rows[first_row(use_df, name)]
    /\ manual_select' = TRUE
    /\ outcome' = "No Sophos data available!"
    /\ pc' = "done"
    /\ UNCHANGED <<normVars, session_state, chosen_sophos_model, filtered_sophos, sub,
                   idx_min, chosen_model, dev_table, fault>>

\* a Python str is true when it is not empty (line 225)
truthy(v) == v.k = "str" /\ v.s # <<>>

\* lines 141, 217-239: Compare with the box ticked and a Sophos model picked
ManualLogic ==
    /\ pc = "form"
    /\ \E v \in Range(vendors) :
        LET use_df == use_df_of(session_state, v)
        IN /\ v # "SonicWall" /\ ~empty(use_df)
           /\ \E name \in model_list(use_df), pick \in model_list(sophos_data) :
                LET row == use_df.rows[first_row(use_df, name)]
                    chosen == sophos_data.rows[first_row(sophos_data, pick)]
                IN /\ selected_vendor' = v
                   /\ selected_model' = name
                   /\ comp_row' = row
                   /\ chosen_sophos_model' = pick
                   /\ IF truthy(pick)
                      THEN /\ chosen_model' = chosen
                           /\ dev_table' = build_matching_table(name, row, chosen, pick,
                                                                use_cols_of(v))
                           /\ outcome' = "## Matching Score"
                      ELSE /\ outcome' = "## Select a Sophos Model Manually"
                           /\ UNCHANGED <<chosen_model, dev_table>>
    /\ manual_select' = TRUE
    /\ pc' = "done"
    /\ UNCHANGED <<normVars, session_state, filtered_sophos, sub, idx_min, fault>>

Next == StopNoVendor \/ StopNoModel \/ AutoLogic \/ ManualNoData \/ ManualLogic
Spec == Init /\ [][Next]_vars

\* ================================================================== claims
\* what the claims call known: a number, neither NaN nor missing
Known(v) == v.k = "num"
IsZero(v) == Known(v) /\ v.m = 0
\* a >= b on two numbers
AtLeast(a, b) == a.m * Pow10(b.e) >= b.m * Pow10(a.e)

\* ------------------------------------------------------------------ C6, C10
\* end (exclusive) of the decimal number that starts at the digit s[i]: digits,
\* then, only when a digit follows it, a point and more digits
NumberEnd(s, i) ==
    LET a == DigitsEnd(s, i)
    IN IF a + 1 <= Len(s) /\ s[a] = "." /\ IsDigit(s[a + 1])
       THEN DigitsEnd(s, a + 1) ELSE a
\* the values of the decimal numbers of s, taken left to right from position i
RECURSIVE NumbersOf(_, _)
NumbersOf(s, i) ==
    IF i > Len(s) THEN {}
    ELSE IF IsDigit(s[i])
         THEN {float(SubSeq(s, i, NumberEnd(s, i) - 1))} \cup NumbersOf(s, NumberEnd(s, i))
         ELSE NumbersOf(s, i + 1)
Greatest(S) == CHOOSE v \in S : \A w \in S : AtLeast(v, w)

Example39 == <<"3", "9", " ", "/", " ", "3", "9", " ", "/", " ", "2", "6", ".", "5">>

\* the cell of the loaded column, before and after
RawCell == raw_df.rows[1][CHOOSE c \in raw_df.columns : TRUE]
Cell == df.rows[1][CHOOSE c \in df.columns : TRUE]
Converted == raw_df.columns # {} /\ raw_df.columns \subseteq Range(ColsOf(key))

\* C6: after the load, a string cell of a converted column holds the greatest of
\* the decimal numbers of the string, or unknown (NaN) when the string has none;
\* a numeric cell is unchanged; "39 / 39 / 26.5" gives 39.
InvC6 ==
    /\ (runs = 1 /\ Converted) =>
          IF RawCell.k = "str"
          THEN IF NumbersOf(RawCell.s, 1) # {}
               THEN Cell = Greatest(NumbersOf(RawCell.s, 1))
               ELSE Cell = NaN
          ELSE Cell = RawCell
    /\ to_numeric(extract_max_throughput(Str(Example39))) = Num(39)
WitC6 ==
    /\ runs = 1 /\ key = "sophos_data" /\ raw_df.columns = {FW}
    /\ RawCell = Str(<<"5", ".", "/", "9">>)
    /\ Cell = Num(9)

\* C10: a second run of the normalizer over a normalized table changes no value,
\* and no run adds or drops a column.
InvC10 ==
    /\ runs >= 2 => df = prev_df
    /\ df.columns = raw_df.columns
WitC10 ==
    /\ runs = 2 /\ Converted
    /\ RawCell.k = "str" /\ Cell.k = "num" /\ Cell # Num(0)
    /\ IPS \notin df.columns

\* ------------------------------------------------------------------ C1-C5
AutoRan == pc = "done" /\ ~manual_select /\ DOMAIN comp_row # {}
ManualRan == pc = "done" /\ manual_select
Returned == idx_min # -1

ComparisonFields == Range(use_cols_of(selected_vendor))
\* candidate row i meets or exceeds the source on a field known on both sides
Dominates(i) ==
    \E f \in ComparisonFields :
        /\ f \in DOMAIN comp_row /\ f \in sophos_data.columns
        /\ Known(comp_row[f]) /\ Known(sophos_data.rows[i][f])
        /\ AtLeast(sophos_data.rows[i][f], comp_row[f])
Survivors == {i \in DOMAIN sophos_data.rows : Dominates(i)}
RankKnown(i) == FW \in sophos_data.columns /\ Known(sophos_data.rows[i][FW])
Kept == {filtered_sophos.index[j] + 1 : j \in DOMAIN filtered_sophos.index}

\* C1: in automatic mode the rows the filter keeps are exactly the rows that meet
\* or exceed the source on some comparison field known on both sides, and a
\* returned candidate is one of them.
InvC1 ==
    AutoRan =>
        /\ Kept = Survivors
        /\ \A j \in DOMAIN filtered_sophos.rows :
              filtered_sophos.rows[j] = sophos_data.rows[filtered_sophos.index[j] + 1]
        /\ Returned => /\ idx_min + 1 \in Survivors
                       /\ chosen_model = sophos_data.rows[idx_min + 1]
WitC1 ==
    /\ AutoRan /\ Returned
    /\ selected_vendor = "Fortinet"
    /\ Len(sophos_data.rows) = 2
    /\ Survivors = {2}
    /\ IPS \in sophos_data.columns /\ ~Known(sophos_data.rows[2][IPS])
    /\ IPS \in DOMAIN comp_row /\ Known(comp_row[IPS])

ExampleSource ==
    [c \in {MODEL, IPS} |-> IF c = MODEL THEN Str(<<"F">>) ELSE Num(10)]
ExampleRow(name, a, rank) ==
    [c \in {MODEL, IPS, FW} |->
        CASE c = MODEL -> Str(<<name>>) [] c = IPS -> Num(a) [] OTHER -> Num(rank)]
ExampleTable ==
    DataFrame({MODEL, IPS, FW},
              <<ExampleRow("X", 5, 5), ExampleRow("Y", 12, 8), ExampleRow("Z", 20, 3)>>)

\* C2: a returned candidate has the least known Firewall Throughput among the
\* survivors, and is the first such row of the table; the example returns Z.
InvC2 ==
    /\ (AutoRan /\ Returned) =>
          LET k == idx_min + 1
          IN /\ k \in Survivors /\ RankKnown(k)
             /\ \A j \in Survivors :
                   RankKnown(j) =>
                      /\ AtLeast(sophos_data.rows[j][FW], sophos_data.rows[k][FW])
                      /\ sophos_data.rows[j][FW] = sophos_data.rows[k][FW] => k <= j
    /\ AutoRun(ExampleSource, ExampleTable, FORTINET_COLS, Str(<<"F">>)).chosen[MODEL]
          = Str(<<"Z">>)
WitC2 ==
    /\ AutoRan /\ Returned
    /\ idx_min = 0
    /\ Survivors = {1, 2}
    /\ sophos_data.rows[1][FW] = sophos_data.rows[2][FW]

AllSourceUnknown == \A f \in ComparisonFields : ~Known(get(comp_row, f))
NoSurvivorMessage == "Please connect to StarLiNK Presales Consultant.."
NoMatchMessages ==
    {NoSurvivorMessage,
     "No 'Firewall Throughput (Gbps)' col in the filtered set.",
     "No valid firewall throughput in the filtered set."}

\* C3: with every comparison field of the source unknown, the automatic run ends
\* with the no-survivor message for every candidate table, without a fault.
CexC3 ==
    (AutoRan /\ AllSourceUnknown) =>
        /\ fault = "none"
        /\ ~Returned
        /\ outcome = NoSurvivorMessage

\* C4: an empty candidate table, no survivor, or no survivor of known rank each
\* end the automatic run with a no-match message, without a candidate or a fault.
CexC4 ==
    (AutoRan /\ (\/ sophos_data = EmptyDataFrame
                 \/ Survivors = {}
                 \/ \A i \in Survivors : ~RankKnown(i))) =>
        /\ fault = "none"
        /\ ~Returned
        /\ outcome \in NoMatchMessages

\* C5: a candidate returned by the automatic run has a known Firewall Throughput.
InvC5 ==
    (AutoRan /\ DOMAIN chosen_model # {}) =>
        /\ FW \in DOMAIN chosen_model
        /\ Known(chosen_model[FW])
WitC5 ==
    /\ AutoRan /\ Returned
    /\ idx_min = 1
    /\ Survivors = {1, 2}
    /\ ~Known(sophos_data.rows[1][FW])

\* ------------------------------------------------------------------ C7, C8
Built == dev_table.columns # <<>>
RatioOf(c) == dev_table.data[c].ratio_str
\* digits, a point, one digit and "%"
IsRatio(st) ==
    /\ Len(st) >= 4
    /\ st[Len(st)] = "%"
    /\ IsDigit(st[Len(st) - 1])
    /\ st[Len(st) - 2] = "."
    /\ \A i \in 1..(Len(st) - 3) : IsDigit(st[i])
\* the tenths of a percent a ratio string shows
TenthsOf(st) == Mantissa(SubSeq(st, 1, Len(st) - 1), 1, 0)
Abs(x) == IF x < 0 THEN -x ELSE x

\* C7: a report field reads "N/A" exactly when the source value is unknown or
\* zero or the candidate value is unknown (a missing field is unknown); every
\* other field reads a ratio.
InvC7 ==
    Built =>
        \A c \in Range(dev_table.columns) :
            LET src == get(comp_row, c)
                cand == get(chosen_model, c)
            IN /\ (RatioOf(c) = NA) <=> (~Known(src) \/ IsZero(src) \/ ~Known(cand))
               /\ RatioOf(c) # NA => IsRatio(RatioOf(c))
               /\ dev_table.data[c].v_val = src
               /\ dev_table.data[c].s_val = cand
WitC7 ==
    /\ Built
    /\ selected_vendor = "Fortinet"
    /\ IsZero(get(comp_row, FW)) /\ Known(get(chosen_model, FW))
    /\ RatioOf(FW) = NA
    /\ ~Known(get(chosen_model, IPS)) /\ RatioOf(IPS) = NA
    /\ RatioOf(VPN) = NA

\* C8: the report has the fields of the vendor's list, in its order; a field
\* known on both sides with a non-zero source reads candidate / source * 100
\* with one decimal and "%", uncapped; 75 against 50 reads "150.0%".
InvC8 ==
    /\ Built =>
          /\ dev_table.columns = use_cols_of(selected_vendor)
          /\ \A c \in Range(dev_table.columns) :
                LET src == get(comp_row, c)
                    cand == get(chosen_model, c)
                    n == cand.m * Pow10(src.e) * 1000
                    d == src.m * Pow10(cand.e)
                IN (Known(src) /\ ~IsZero(src) /\ Known(cand)) =>
                      /\ IsRatio(RatioOf(c))
                      /\ 2 * Abs(TenthsOf(RatioOf(c)) * d - n) <= d
    /\ ratio_cell(Num(50), Num(75)) = <<"1", "5", "0", ".", "0", "%">>
WitC8 ==
    /\ Built
    /\ get(comp_row, FW) = Num(1) /\ get(chosen_model, FW) = Num(2)
    /\ RatioOf(FW) = <<"2", "0", "0", ".", "0", "%">>

\* ------------------------------------------------------------------ C9
SophosIds ==
    IF MODEL \in sophos_data.columns
    THEN {sophos_data.rows[i][MODEL] : i \in DOMAIN sophos_data.rows} \ {NaN}
    ELSE {}
RowsNamed(id) == {i \in DOMAIN sophos_data.rows : sophos_data.rows[i][MODEL] = id}

====
